---- MODULE Spec2Model ----
(***************************************************************************)
(* Navigation state machine of RenderProvider                              *)
(* (src/render/components/Link.js): the React state of the provider, the   *)
(* page-data fetches in flight, the debounced publish to the hosting       *)
(* frame and the DOM side effects of a completed navigation.               *)
(*                                                                         *)
(* JavaScript values are modelled as follows.  An object is a function     *)
(* from its own keys to values, so that a spread {...a, ...b} is           *)
(* Spread(a, b) and an absent key reads as Undefined.  this.state is the   *)
(* variable state; the Set held in state.loadedPages is one heap object    *)
(* that every setState hands back unchanged in identity, so it is the      *)
(* variable loadedPages, mutated in place by Set.add.  JavaScript runs a   *)
(* handler to completion, so a handler together with the setState calls    *)
(* it issues and their completion callbacks is one atomic step; the steps  *)
(* interleave at the asynchronous boundaries: a fetch settling, a timer    *)
(* firing, the next event.                                                 *)
(***************************************************************************)
EXTENDS Integers, Sequences, FiniteSets, Bags, TLC

VARIABLES
    state,          \* this.state of RenderProvider
    loadedPages,    \* the Set object referenced by state.loadedPages
    inflight,       \* page-data fetches started and not yet settled
    nextSeq,        \* number of Data Fetcher invocations so far
    settled,        \* sequence numbers of the navigation fetches applied
    sendInfo,       \* timer of the debounced sendInfoFromIframe
    routeClass,     \* route class of the render containers (DOM)
    scrollTimer,    \* a window.setTimeout(pageScrollTo) is scheduled
    history,        \* props.history and its current location
    rendered,       \* this.rendered
    listening,      \* history.listen(this.onPageChanged) is registered
    emitter,        \* the emitter events this instance listens to
    unmounted,      \* componentWillUnmount has run
    renderNavigation, \* isEnabled('RENDER_NAVIGATION')
    isSiteEditorIframe, \* the runtime is inside the hosting frame
    production,     \* props.runtime.production
    runtimeQuery,   \* props.runtime.query
    prefetchRoutes, \* this.prefetchRoutes, a Set in insertion order
    prefetchTimer,  \* the setTimeout(this.execPrefetchPages, 20 * 1000)
    prefetchCalls,  \* the calls execPrefetchPages has made
    domFailure,     \* the DOM operations that throw in this document
    lastOp          \* the operation that produced the current state

vars == <<state, loadedPages, inflight, nextSeq, settled, sendInfo,
          routeClass, scrollTimer, history, rendered, listening, emitter,
          unmounted, renderNavigation, isSiteEditorIframe, production,
          runtimeQuery, prefetchRoutes, prefetchTimer, prefetchCalls,
          domFailure, lastOp>>

(***************************************************************************)
(* Bounds of the model.                                                    *)
(***************************************************************************)
MaxFetches == 2

(***************************************************************************)
(* JavaScript objects.                                                     *)
(***************************************************************************)
Undefined == "undefined"

EmptyMap == [k \in {} |-> Undefined]

Get(obj, key) == IF key \in DOMAIN obj THEN obj[key] ELSE Undefined

Spread(a, b) ==
    [k \in (DOMAIN a) \cup (DOMAIN b) |-> IF k \in DOMAIN b THEN b[k] ELSE a[k]]

(***************************************************************************)
(* The pages of the site, the runtime descriptor the session boots from    *)
(* and the navigation events the history can deliver.                      *)
(***************************************************************************)
PageIds == {"store.home", "store.product", "admin.app"}

\* the pages a navigation event names
NavigationPageIds == {"store.home", "store.product"}

PathOf(p) ==
    CASE p = "store.home" -> "/"
      [] p = "store.product" -> "/p/123"
      [] OTHER -> "/admin/app"

DomainOf(p) == IF p = "admin.app" THEN "admin" ELSE "store"

RouteOf(p) ==
    [id |-> p, path |-> PathOf(p), params |-> "{}", domain |-> DomainOf(p)]

PageEntry(allow) ==
    IF allow THEN [declarer |-> "app", allowConditions |-> "conditions"]
             ELSE [declarer |-> "app"]

BootPages == [p \in {"store.home", "store.product"} |-> PageEntry(FALSE)]

ConditionalPages ==
    [p \in {"store.home", "store.product"} |-> PageEntry(p = "store.product")]

Runtime(p) ==
    [appsEtag |-> "e0",
     cacheHints |-> EmptyMap,
     components |-> [k \in {"cA"} |-> "v0"],
     extensions |-> [k \in {"store/home"} |-> "v0"],
     messages |-> [k \in {"m.a"} |-> "v0"],
     page |-> p,
     pages |-> BootPages,
     query |-> EmptyMap,
     route |-> RouteOf(p),
     settings |-> EmptyMap]

Searches == {<<>>, << <<"q", "red">> >>}

NavigationRoutes ==
    {[id |-> p, path |-> PathOf(p), params |-> "{}"] : p \in NavigationPageIds}
        \cup {[path |-> "/p/123", params |-> "{}"]}

NoState == [none |-> TRUE]

MarkedStates ==
    {[renderRouting |-> TRUE, navigationRoute |-> nr, fetchPage |-> fp,
      scrollOptions |-> so] :
        nr \in NavigationRoutes, fp \in {Undefined, "false", "true"},
        so \in {Undefined, "false"}}

\* no state at all, the state of another library, a state whose marker is off
ForeignStates ==
    {NoState,
     [key |-> "foreign"],
     [renderRouting |-> FALSE,
      navigationRoute |-> [id |-> "store.product", path |-> "/p/123",
                           params |-> "{}"]]}

ForeignLocations == {[state |-> s, search |-> <<>>] : s \in ForeignStates}

MarkedLocations ==
    {[state |-> s, search |-> q] : s \in MarkedStates, q \in Searches}

(***************************************************************************)
(* Route/Query codec (utils/pages).                                        *)
(***************************************************************************)
KeyOrder == <<"color", "q">>

Last(search, k) ==
    CHOOSE i \in DOMAIN search :
        /\ search[i][1] = k
        /\ \A j \in DOMAIN search : search[j][1] = k => j <= i

queryStringToMap(search) ==
    [k \in {search[i][1] : i \in DOMAIN search} |-> search[Last(search, k)][2]]

RECURSIVE Pairs(_, _)
Pairs(map, keys) ==
    IF keys = <<>> THEN <<>>
    ELSE IF Head(keys) \in DOMAIN map
         THEN <<<<Head(keys), map[Head(keys)]>>>> \o Pairs(map, Tail(keys))
         ELSE Pairs(map, Tail(keys))

mapToQueryString(map) == Pairs(map, KeyOrder)

(***************************************************************************)
(* Data Fetcher (utils/routes): what a page-data fetch may resolve to.     *)
(* The first body overwrites keys the boot runtime already has, the        *)
(* second brings only new keys.                                            *)
(***************************************************************************)
\* a result whose keys the boot runtime already has
OverwritingBody ==
    [appsEtag |-> "e1",
     cacheHints |-> [k \in {"h1"} |-> [j \in {"a"} |-> "1"]],
     components |-> [k \in {"cA"} |-> "v1"],
     extensions |-> [k \in {"store/home"} |-> "v1"],
     messages |-> [k \in {"m.a"} |-> "v1"],
     pages |-> BootPages,
     settings |-> [k \in {"app"} |-> "s1"]]

\* a result that brings only new keys, and allow-conditions on a page
FreshBody ==
    [appsEtag |-> "e2",
     cacheHints |-> [k \in {"h1"} |-> [j \in {"b"} |-> "2"]],
     components |-> [k \in {"cB"} |-> "v2"],
     extensions |-> [k \in {"store/product"} |-> "v2"],
     messages |-> [k \in {"m.b"} |-> "v2"],
     pages |-> ConditionalPages,
     settings |-> [k \in {"app"} |-> "s2"]]

Bodies == {OverwritingBody, FreshBody}

\* matchingPage of fetchServerPage: the page the server resolved the path to
ServerMatchingPage(routeId) == Spread(RouteOf(routeId), [routeId |-> routeId])

\* matchingPage of fetchNavigationPage: the server's data on the route asked
NavigationMatchingPage(routeId) ==
    [path |-> PathOf(routeId), domain |-> DomainOf(routeId)]

\* the results a fetch may resolve to, the server answering with one of
\* bodies and resolving a path to one of the pages ids
Responses(fetch, bodies, ids) ==
    {Spread(body, [matchingPage |-> mp]) :
        body \in bodies,
        mp \in IF renderNavigation
               THEN {ServerMatchingPage(p) : p \in ids}
               ELSE {NavigationMatchingPage(fetch.page)}}

(***************************************************************************)
(* ramda's merge and mergeWith(merge, l, r).                               *)
(***************************************************************************)
merge(l, r) == Spread(l, r)

mergeWithMerge(l, r) ==
    [k \in (DOMAIN l) \cup (DOMAIN r) |->
        IF k \in DOMAIN l /\ k \in DOMAIN r THEN merge(l[k], r[k])
        ELSE IF k \in DOMAIN r THEN r[k] ELSE l[k]]

(***************************************************************************)
(* setState(patch, callback): the patches of a handler are merged into     *)
(* the state in the order of the calls, then the callbacks run in order.   *)
(***************************************************************************)
Update(patch, cb) == [patch |-> patch, cb |-> cb]

RECURSIVE ApplyPatches(_, _)
ApplyPatches(st, updates) ==
    IF updates = <<>> THEN st
    ELSE ApplyPatches(Spread(st, Head(updates).patch), Tail(updates))

\* replaceRouteClass(route): an exception of the DOM is caught and logged
replaceRouteClass(current, route) ==
    IF "replaceRouteClass" \in domFailure THEN current ELSE route

\* scrollTo(scrollOptions) schedules pageScrollTo unless scrollOptions === false;
\* an exception of window.setTimeout is caught and logged
scrollTo(scrollOptions) ==
    scrollOptions # "false" /\ "scrollTo" \notin domFailure

ArmedSticky(shouldUpdateRuntime) ==
    [armed |-> TRUE,
     shouldUpdateRuntime |-> shouldUpdateRuntime \/ sendInfo.shouldUpdateRuntime,
     elapsed |-> 0]

\* sendInfoFromIframe(params): debounce keeps the arguments of the last call
\* and restarts its window; elapsed is the time since that call
Armed(shouldUpdateRuntime) ==
    [armed |-> TRUE, shouldUpdateRuntime |-> shouldUpdateRuntime, elapsed |-> 0]

Idle == [armed |-> FALSE, shouldUpdateRuntime |-> FALSE, elapsed |-> 0]

CallsReplaceRouteClass(cb) == cb.fn \in {"afterPageChanged", "routeClassAndSend"}

CallsScrollTo(cb) == cb.fn \in {"afterPageChanged", "scrollTo"}

CallsSendInfoUnlessDomFails(cb) ==
    /\ domFailure = {}
    /\ \/ cb.fn \in {"afterPageChanged", "routeClassAndSend", "sendInfo"}
       \/ cb.fn = "resolve" /\ cb.send

CallsSendInfoOnPageChange(cb) ==
    cb.fn \in {"afterPageChanged", "routeClassAndSend", "sendInfo"}

CallsSendInfo(cb) ==
    \/ cb.fn \in {"afterPageChanged", "routeClassAndSend", "sendInfo"}
    \/ cb.fn = "resolve" /\ cb.send

RECURSIVE RouteClassAfter(_, _)
RouteClassAfter(current, updates) ==
    IF updates = <<>> THEN current
    ELSE RouteClassAfter(
            IF CallsReplaceRouteClass(Head(updates).cb)
            THEN replaceRouteClass(current, Head(updates).cb.route)
            ELSE current,
            Tail(updates))

\* the state, the DOM and the publish timer once the updates are applied;
\* React drops a setState issued on an unmounted component, callback included
Commit(updates) ==
    IF unmounted
    THEN UNCHANGED <<state, routeClass, scrollTimer, sendInfo>>
    ELSE /\ state' = ApplyPatches(state, updates)
         /\ routeClass' = RouteClassAfter(routeClass, updates)
         /\ scrollTimer' =
               (scrollTimer \/ \E i \in DOMAIN updates :
                                  /\ CallsScrollTo(updates[i].cb)
                                  /\ scrollTo(updates[i].cb.scrollOptions))
         /\ sendInfo' =
               IF \E i \in DOMAIN updates : CallsSendInfo(updates[i].cb)
               THEN Armed(FALSE) ELSE sendInfo

(***************************************************************************)
(* onPageChanged(location)                                                 *)
(***************************************************************************)
MarkedByKey(location) == "renderRouting" \in DOMAIN location.state

Marked(location) ==
    /\ "renderRouting" \in DOMAIN location.state
    /\ location.state.renderRouting

Or(a, b) == IF a # Undefined THEN a ELSE b

AllowConditions(pagesState, maybePage) ==
    /\ maybePage \in DOMAIN pagesState
    /\ Get(pagesState[maybePage], "allowConditions") # Undefined

Declarer(pagesState, maybePage) ==
    IF maybePage \in DOMAIN pagesState
    THEN Get(pagesState[maybePage], "declarer") ELSE Undefined

SkipOnRequestOnly(location) == Get(location.state, "fetchPage") = "false"

SkipByCurrentRoute(location) ==
    LET page == Or(Get(location.state.navigationRoute, "id"),
                   Get(state.route, "id"))
    IN  \/ /\ ~AllowConditions(state.pages, page)
           /\ page \in loadedPages
        \/ Get(location.state, "fetchPage") = "false"

shouldSkipFetchNavigationData(location) ==
    LET maybePage == Get(location.state.navigationRoute, "id")
    IN  \/ /\ ~AllowConditions(state.pages, maybePage)
           /\ maybePage \in loadedPages
        \/ Get(location.state, "fetchPage") = "false"

\* page = maybePage || route.id
TargetPage(location) ==
    Or(Get(location.state.navigationRoute, "id"), Get(state.route, "id"))

SkipUpdateEndingPreview(location) ==
    Update([page |-> TargetPage(location),
            preview |-> FALSE,
            query |-> queryStringToMap(location.search),
            route |-> Spread(state.route, location.state.navigationRoute)],
           [fn |-> "afterPageChanged",
            route |-> TargetPage(location),
            scrollOptions |-> Get(location.state, "scrollOptions")])

\* the setState of the skip path and its callback afterPageChanged
SkipUpdate(location) ==
    Update([page |-> TargetPage(location),
            query |-> queryStringToMap(location.search),
            route |-> Spread(state.route, location.state.navigationRoute)],
           [fn |-> "afterPageChanged",
            route |-> TargetPage(location),
            scrollOptions |-> Get(location.state, "scrollOptions")])

PreviewAlways(location) ==
    Update([preview |-> TRUE],
           [fn |-> "scrollTo",
            scrollOptions |-> Get(location.state, "scrollOptions")])

\* the setState that turns the preview on and its callback scrollTo
PreviewUpdate(location) ==
    Update([preview |-> Get(state.route, "domain") # "admin"],
           [fn |-> "scrollTo",
            scrollOptions |-> Get(location.state, "scrollOptions")])

\* the call of fetchServerPage or of fetchNavigationPage
NavigationFetch(location) ==
    LET navigationRoute == location.state.navigationRoute
        maybePage == Get(navigationRoute, "id")
        query == queryStringToMap(location.search)
    IN  [seq |-> nextSeq + 1,
         kind |-> "navigation",
         request |->
            IF renderNavigation
            THEN [path |-> Get(navigationRoute, "path"), query |-> query]
            ELSE [routeId |-> TargetPage(location),
                  declarer |-> Declarer(state.pages, maybePage),
                  paramsJSON |-> Get(navigationRoute, "params"),
                  query |-> query,
                  skipCache |-> FALSE],
         page |-> TargetPage(location),
         query |-> query,
         route |-> Spread(state.route, navigationRoute)]

onPageChanged(location) ==
    IF ~Marked(location)
    THEN UNCHANGED <<state, inflight, nextSeq, sendInfo, routeClass,
                     scrollTimer>>
    ELSE IF shouldSkipFetchNavigationData(location)
    THEN /\ Commit(<<SkipUpdate(location)>>)
         /\ UNCHANGED <<inflight, nextSeq>>
    ELSE /\ Commit(<<PreviewUpdate(location)>>)
         /\ inflight' = inflight \cup {NavigationFetch(location)}
         /\ nextSeq' = nextSeq + 1

\* the event starts no fetch beyond the bound of the model
Admits(location) ==
    IF ~Marked(location) THEN TRUE
    ELSE IF shouldSkipFetchNavigationData(location) THEN TRUE
    ELSE nextSeq < MaxFetches

(***************************************************************************)
(* The state after construction.                                           *)
(***************************************************************************)
BootPage == "store.home"

DISABLE_PREFETCH_PAGES == "__disablePrefetchPages"

\* props.runtime.query: without the reserved key, and with it set to "false",
\* to "true" and to the empty string
RuntimeQueries ==
    {EmptyMap} \cup
    {[k \in {DISABLE_PREFETCH_PAGES} |-> v] : v \in {"false", "true", ""}}

\* no setTimeout(this.execPrefetchPages) yet
Unscheduled == [armed |-> FALSE, elapsed |-> 0]

\* execPrefetchPages has called nothing yet
NoCalls == [fetches |-> <<>>, pending |-> FALSE, assets |-> EmptyBag]

Init ==
    /\ state = Spread(Runtime(BootPage), [preview |-> FALSE])
    /\ loadedPages = {BootPage}
    /\ routeClass = BootPage
    /\ inflight = {}
    /\ nextSeq = 0
    /\ settled = {}
    /\ sendInfo = Idle
    /\ scrollTimer = FALSE
    /\ \E exists \in BOOLEAN : history = [exists |-> exists, search |-> <<>>]
    /\ rendered = FALSE
    /\ listening = FALSE
    /\ emitter = {}
    /\ unmounted = FALSE
    /\ renderNavigation \in BOOLEAN
    /\ isSiteEditorIframe \in BOOLEAN
    /\ production \in BOOLEAN
    /\ runtimeQuery \in RuntimeQueries
    /\ prefetchRoutes = <<>>
    /\ prefetchTimer = Unscheduled
    /\ prefetchCalls = NoCalls
    /\ domFailure \in SUBSET {"replaceRouteClass", "scrollTo"}
    /\ lastOp = [op |-> "constructor"]

config == <<renderNavigation, isSiteEditorIframe, production, runtimeQuery,
           domFailure>>

dom == <<routeClass, scrollTimer>>

lifecycle == <<rendered, listening, emitter, unmounted>>

prefetch == <<prefetchRoutes, prefetchTimer, prefetchCalls>>

(***************************************************************************)
(* componentDidMount                                                       *)
(***************************************************************************)
Scheduled == [armed |-> TRUE, elapsed |-> 0]

PrefetchPagesAlways == Scheduled

\* prefetchPages()
prefetchPages ==
    IF Len(prefetchRoutes) > 0 THEN Scheduled ELSE prefetchTimer

componentDidMount ==
    /\ ~rendered
    /\ rendered' = TRUE
    /\ listening' = history.exists
    /\ emitter' = {"localesChanged"} \cup
                   (IF production THEN {}
                    ELSE {"extensionsUpdated", "blocksUpdated"})
    /\ sendInfo' = Armed(FALSE)
    /\ prefetchTimer' = prefetchPages
    /\ lastOp' = [op |-> "componentDidMount"]
    /\ UNCHANGED <<state, loadedPages, inflight, nextSeq, settled, dom,
                   history, unmounted, prefetchRoutes, prefetchCalls, config>>

(***************************************************************************)
(* The history listener: history.listen(this.onPageChanged)                *)
(***************************************************************************)
HistoryListener(location) ==
    /\ listening
    /\ Admits(location)
    /\ history' = [history EXCEPT !.search = location.search]
    /\ onPageChanged(location)
    /\ lastOp' =
          IF /\ "renderRouting" \in DOMAIN location.state
             /\ location.state.renderRouting
          THEN [op |-> "onPageChanged",
                marked |-> TRUE,
                id |-> Get(location.state.navigationRoute, "id"),
                path |-> Get(location.state.navigationRoute, "path"),
                navigationRoute |-> location.state.navigationRoute,
                scrollOptions |-> Get(location.state, "scrollOptions"),
                fetchPageFalse |-> Get(location.state, "fetchPage") = "false",
                fetched |-> nextSeq' # nextSeq]
          ELSE [op |-> "onPageChanged", marked |-> FALSE]
    /\ UNCHANGED <<loadedPages, settled, lifecycle, config, prefetch>>

(***************************************************************************)
(* setQuery(query, {merge, replace, scrollOptions})                        *)
(***************************************************************************)
\* navigate of utils/pages: the location pushed to (or replaced in) history
pageNavigate(pages, options) ==
    [state |-> [renderRouting |-> TRUE,
                navigationRoute |-> [id |-> options.page,
                                     params |-> options.params,
                                     path |-> PathOf(options.page)],
                fetchPage |-> options.fetchPage,
                scrollOptions |-> options.scrollOptions],
     search |-> options.query]

FetchingOptions(query, mergeFlag, replace, scrollOptions) ==
    [fetchPage |-> Undefined,
     page |-> state.page,
     params |-> Get(state.route, "params"),
     query |-> mapToQueryString(query),
     replace |-> replace,
     scrollOptions |-> scrollOptions]

ReplacingOptions(query, mergeFlag, replace, scrollOptions) ==
    [fetchPage |-> "false",
     page |-> state.page,
     params |-> Get(state.route, "params"),
     query |-> mapToQueryString(query),
     replace |-> replace,
     scrollOptions |-> scrollOptions]

\* the options setQuery hands to navigate
setQueryOptions(query, mergeFlag, replace, scrollOptions) ==
    LET current == queryStringToMap(history.search)
        nextQuery ==
            mapToQueryString(IF mergeFlag THEN Spread(current, query) ELSE query)
    IN  [fetchPage |-> "false",
         page |-> state.page,
         params |-> Get(state.route, "params"),
         query |-> nextQuery,
         replace |-> replace,
         scrollOptions |-> scrollOptions]

setQuery(query, mergeFlag, replace, scrollOptions) ==
    LET options == setQueryOptions(query, mergeFlag, replace, scrollOptions)
        location == pageNavigate(state.pages, options)
    IN  /\ IF ~history.exists
           THEN UNCHANGED <<history, state, inflight, nextSeq, sendInfo, dom>>
           ELSE /\ history' = [history EXCEPT !.search = location.search]
                /\ IF listening
                   THEN Admits(location) /\ onPageChanged(location)
                   ELSE UNCHANGED <<state, inflight, nextSeq, sendInfo, dom>>
        /\ lastOp' = [op |-> "setQuery",
                      query |-> query,
                      merge |-> mergeFlag,
                      fetchPage |-> options.fetchPage,
                      returned |-> history.exists,
                      notified |-> history.exists /\ listening]
        /\ UNCHANGED <<loadedPages, settled, lifecycle, config, prefetch>>

(***************************************************************************)
(* A navigation fetch settles: the .then of onPageChanged                  *)
(***************************************************************************)
ServerPageReplace(fetch, response) ==
    [appsEtag |-> response.appsEtag,
     components |-> response.components,
     extensions |-> Spread(state.extensions, response.extensions),
     messages |-> response.messages,
     page |-> response.matchingPage.routeId,
     pages |-> response.pages,
     preview |-> FALSE,
     query |-> fetch.query,
     route |-> response.matchingPage,
     settings |-> response.settings]

ServerPagePatch(fetch, response) ==
    [appsEtag |-> response.appsEtag,
     components |-> Spread(state.components, response.components),
     extensions |-> Spread(state.extensions, response.extensions),
     messages |-> Spread(state.messages, response.messages),
     page |-> response.matchingPage.routeId,
     pages |-> response.pages,
     preview |-> FALSE,
     query |-> fetch.query,
     route |-> response.matchingPage,
     settings |-> response.settings]

NavigationPagePatch(fetch, response) ==
    [appsEtag |-> response.appsEtag,
     cacheHints |-> mergeWithMerge(state.cacheHints, response.cacheHints),
     components |-> Spread(state.components, response.components),
     extensions |-> Spread(state.extensions, response.extensions),
     messages |-> Spread(state.messages, response.messages),
     page |-> fetch.page,
     pages |-> response.pages,
     preview |-> FALSE,
     query |-> fetch.query,
     route |-> Spread(fetch.route, response.matchingPage),
     settings |-> response.settings]

FreshestPagePatch(fetch, response) ==
    IF \E s \in settled : s > fetch.seq THEN EmptyMap
    ELSE IF renderNavigation THEN ServerPagePatch(fetch, response)
                             ELSE NavigationPagePatch(fetch, response)

PagePatch(fetch, response) ==
    IF renderNavigation THEN ServerPagePatch(fetch, response)
                        ELSE NavigationPagePatch(fetch, response)

RequestedPage(fetch, response) == fetch.page

\* the id handed to loadedPages.add
LoadedPage(fetch, response) ==
    IF renderNavigation THEN response.matchingPage.routeId ELSE fetch.page

SetOf(set, value) == {value}

\* Set.add
SetAdd(set, value) == set \cup {value}

FetchResolve(fetch, response) ==
    /\ fetch \in inflight
    /\ fetch.kind = "navigation"
    /\ inflight' = inflight \ {fetch}
    /\ loadedPages' = SetAdd(loadedPages, LoadedPage(fetch, response))
    /\ Commit(<<Update(PagePatch(fetch, response),
                       [fn |-> "routeClassAndSend",
                        route |-> LoadedPage(fetch, response)])>>)
    /\ settled' = settled \cup {fetch.seq}
    /\ lastOp' = [op |-> "fetchResolve",
                  seq |-> fetch.seq,
                  page |-> fetch.page,
                  previous |-> state.page,
                  response |-> response,
                  stale |-> \E s \in settled : s > fetch.seq,
                  setStates |-> 1]
    /\ UNCHANGED <<nextSeq, history, lifecycle, config, prefetch>>

FetchRejectRecovered(fetch) ==
    /\ fetch \in inflight
    /\ inflight' = inflight \ {fetch}
    /\ state' = [state EXCEPT !.preview = FALSE]
    /\ lastOp' = [op |-> "fetchReject", kind |-> fetch.kind, handled |-> TRUE]
    /\ UNCHANGED <<loadedPages, nextSeq, settled, sendInfo, dom,
                   history, lifecycle, config, prefetch>>

\* the fetch fails: neither .then has a rejection handler and updateRuntime
\* has no try/catch around its await, so no code of the provider runs
FetchReject(fetch) ==
    /\ fetch \in inflight
    /\ inflight' = inflight \ {fetch}
    /\ lastOp' = [op |-> "fetchReject", kind |-> fetch.kind, handled |-> FALSE]
    /\ UNCHANGED <<state, loadedPages, nextSeq, settled, sendInfo, dom,
                   history, lifecycle, config, prefetch>>

(***************************************************************************)
(* updateRuntime(options): the call, up to the await of the fetch, and     *)
(* the continuation once the fetch has resolved.                           *)
(***************************************************************************)
RuntimeFetch ==
    [seq |-> nextSeq + 1,
     kind |-> "runtime",
     request |->
        IF renderNavigation
        THEN [path |-> Get(state.route, "path"), query |-> state.query]
        ELSE [routeId |-> state.page,
              declarer |-> Declarer(state.pages, state.page),
              paramsJSON |-> Get(state.route, "params"),
              query |-> "",
              skipCache |-> TRUE],
     page |-> state.page,
     query |-> state.query,
     route |-> state.route]

updateRuntime ==
    /\ nextSeq < MaxFetches
    /\ inflight' = inflight \cup {RuntimeFetch}
    /\ nextSeq' = nextSeq + 1
    /\ lastOp' = [op |-> "updateRuntime",
                  loaded |-> state.page \in loadedPages]
    /\ UNCHANGED <<state, loadedPages, settled, sendInfo, dom, history,
                   lifecycle, config, prefetch>>

\* the updater handed to setState, applied to the state st
RuntimePatch(st, fetch, response) ==
    [appsEtag |-> response.appsEtag,
     cacheHints |-> IF renderNavigation THEN st.cacheHints
                                        ELSE response.cacheHints,
     components |-> response.components,
     extensions |-> Spread(st.extensions, response.extensions),
     messages |-> response.messages,
     page |-> fetch.page,
     pages |-> response.pages,
     route |-> fetch.route,
     settings |-> response.settings]

UpdateRuntimeResolve(fetch, response) ==
    /\ fetch \in inflight
    /\ fetch.kind = "runtime"
    /\ inflight' = inflight \ {fetch}
    /\ Commit(<<Update(RuntimePatch(state, fetch, response),
                       [fn |-> "resolve", send |-> TRUE])>>)
    /\ lastOp' = [op |-> "updateRuntimeResolve",
                  seq |-> fetch.seq,
                  response |-> response,
                  setStates |-> 1]
    /\ UNCHANGED <<loadedPages, nextSeq, settled, history, lifecycle, config, prefetch>>

(***************************************************************************)
(* updateExtension(name, extension) and addMessages(newMessages)           *)
(***************************************************************************)
ExtensionUpdatePublishing(name, extension) ==
    Update([extensions |->
               Spread(state.extensions, [k \in {name} |-> extension])],
           [fn |-> "resolve", send |-> TRUE])

ExtensionUpdate(name, extension) ==
    Update([extensions |->
               Spread(state.extensions, [k \in {name} |-> extension])],
           [fn |-> "resolve", send |-> name # "store/__overlay"])

updateExtension(name, extension) ==
    /\ Commit(<<ExtensionUpdate(name, extension)>>)
    /\ lastOp' = [op |-> "updateExtension",
                  name |-> name,
                  extension |-> extension]
    /\ UNCHANGED <<loadedPages, inflight, nextSeq, settled, history,
                   lifecycle, config, prefetch>>

MessagesUpdate(newMessages) ==
    Update([messages |-> Spread(state.messages, newMessages)],
           [fn |-> "resolve", send |-> TRUE])

addMessages(newMessages) ==
    /\ Commit(<<MessagesUpdate(newMessages)>>)
    /\ lastOp' = [op |-> "addMessages"]
    /\ UNCHANGED <<loadedPages, inflight, nextSeq, settled, history,
                   lifecycle, config, prefetch>>

(***************************************************************************)
(* Timers: the debounced publish and the scheduled scroll.                 *)
(***************************************************************************)
SendInfoFromAnyFrame ==
    /\ sendInfo.armed
    /\ sendInfo' = Idle
    /\ lastOp' = [op |-> "sendInfoFromIframe",
                  provideRuntime |-> TRUE,
                  shouldUpdateRuntime |-> sendInfo.shouldUpdateRuntime,
                  published |-> state]
    /\ UNCHANGED <<state, loadedPages, inflight, nextSeq, settled, dom,
                   history, lifecycle, config, prefetch>>

sendInfoFromIframe ==
    /\ sendInfo.armed
    /\ sendInfo' = Idle
    /\ lastOp' = [op |-> "sendInfoFromIframe",
                  provideRuntime |-> isSiteEditorIframe,
                  shouldUpdateRuntime |-> sendInfo.shouldUpdateRuntime,
                  published |-> state]
    /\ UNCHANGED <<state, loadedPages, inflight, nextSeq, settled, dom,
                   history, lifecycle, config, prefetch>>

pageScrollTo ==
    /\ scrollTimer
    /\ scrollTimer' = FALSE
    /\ lastOp' = [op |-> "pageScrollTo"]
    /\ UNCHANGED <<state, loadedPages, inflight, nextSeq, settled, sendInfo,
                   routeClass, history, lifecycle, config, prefetch>>

(***************************************************************************)
(* Spec: navigation inside the hosting frame of a development workspace.   *)
(* The history delivers                                                    *)
(* foreign events and navigations (with or without a page id, with any     *)
(* fetchPage) that scroll to the top; setQuery keeps the scroll position;  *)
(* the server answers with either body and may resolve a path to either    *)
(* page.                                                                   *)
(***************************************************************************)
InitHosted ==
    /\ Init
    /\ isSiteEditorIframe
    /\ ~production
    /\ runtimeQuery = EmptyMap
    /\ domFailure = {}

NavigationLocations ==
    {l \in MarkedLocations :
        l.search = <<>> /\ l.state.scrollOptions = Undefined}
      \cup ForeignLocations

QueryArguments == {EmptyMap, [k \in {"q"} |-> "red"]}

Next ==
    \/ componentDidMount
    \/ \E location \in NavigationLocations : HistoryListener(location)
    \/ \E query \in QueryArguments, mergeFlag \in BOOLEAN :
            setQuery(query, mergeFlag, FALSE, "false")
    \/ \E fetch \in inflight :
          \E response \in Responses(fetch, Bodies, NavigationPageIds) :
            FetchResolve(fetch, response)
    \/ \E fetch \in inflight : FetchReject(fetch)
    \/ sendInfoFromIframe
    \/ pageScrollTo

Spec == InitHosted /\ [][Next]_vars

(***************************************************************************)
(* SpecSession: every operation that touches the state, interleaved.  The  *)
(* history delivers navigations to "store.product" with fetchPage unset or *)
(* false; the server answers with FreshBody.                               *)
(***************************************************************************)
SessionLocations ==
    {l \in MarkedLocations :
        /\ l.search = <<>>
        /\ l.state.scrollOptions = "false"
        /\ l.state.fetchPage \in {Undefined, "false"}
        /\ Get(l.state.navigationRoute, "id") = "store.product"}

NextSession ==
    \/ componentDidMount
    \/ \E location \in SessionLocations : HistoryListener(location)
    \/ setQuery([k \in {"q"} |-> "red"], TRUE, FALSE, "false")
    \/ \E fetch \in inflight :
          \E response \in Responses(fetch, {FreshBody}, NavigationPageIds) :
            FetchResolve(fetch, response)
    \/ \E fetch \in inflight : FetchReject(fetch)
    \/ updateRuntime
    \/ \E fetch \in inflight :
          \E response \in Responses(fetch, {FreshBody}, {fetch.page}) :
            UpdateRuntimeResolve(fetch, response)
    \/ updateExtension("store/home", "x1")
    \/ addMessages([k \in {"m.c"} |-> "x1"])
    \/ sendInfoFromIframe

SpecSession == InitHosted /\ [][NextSession]_vars

(***************************************************************************)
(* Properties of the navigation state machine.                             *)
(***************************************************************************)
EventStep == lastOp'.op = "onPageChanged"

MarkedEventStep == EventStep /\ lastOp'.marked

NoFetchStep == nextSeq' = nextSeq /\ inflight' = inflight

\* the one fetch a step has started
Started == inflight' \ inflight

OneFetchStep ==
    /\ nextSeq' = nextSeq + 1
    /\ inflight \subseteq inflight'
    /\ Cardinality(Started) = 1

\* C1: an event whose state is absent or lacks renderRouting = true changes
\* no field of the navigation state (loadedPages included), invokes no
\* fetch and schedules no publish, no scroll and no change of the route
\* class, in whatever state it arrives and however many such events arrive.
C1_UnmarkedEventIsNoOp ==
    [][(EventStep /\ ~lastOp'.marked) =>
          UNCHANGED <<state, loadedPages, inflight, nextSeq, settled,
                      sendInfo, routeClass, scrollTimer>>]_vars

\* an unmarked event arrived while a fetch was in flight behind the preview
C1_Witness ==
    /\ lastOp.op = "onPageChanged"
    /\ ~lastOp.marked
    /\ inflight # {}
    /\ state.preview
    /\ ~sendInfo.armed

\* C2 as stated: a marked event whose target page id (navigationRoute.id or
\* else the current route's id) is in loadedPages and whose page entry has
\* no allowConditions starts no fetch, whatever fetchPage is.
C2_LoadedTargetNeverFetches ==
    [][MarkedEventStep =>
          LET targetPageId == Or(lastOp'.id, Get(state.route, "id"))
          IN  (/\ targetPageId \in loadedPages
               /\ ~AllowConditions(state.pages, targetPageId)) => NoFetchStep]_vars

\* C2, amended: a marked event that carries a navigationRoute.id which is in
\* loadedPages and whose page entry has no allowConditions starts no fetch,
\* whatever fetchPage is, and the state's page is that id afterwards; from
\* "store.home" to "store.home" the page stays "store.home".
C2_LoadedPageNeverFetches ==
    [][(/\ MarkedEventStep
        /\ lastOp'.id \in loadedPages
        /\ ~AllowConditions(state.pages, lastOp'.id)) =>
          (NoFetchStep /\ state'.page = lastOp'.id)]_vars

\* "store.home" to "store.home", fetchPage not false, before any fetch
C2_Witness ==
    /\ lastOp.op = "onPageChanged"
    /\ lastOp.marked
    /\ lastOp.id = "store.home"
    /\ ~lastOp.fetchPageFalse
    /\ nextSeq = 0
    /\ state.page = "store.home"

\* C3 as stated: a marked event starts a fetch iff not ((the target page has
\* no allowConditions and is in loadedPages) or fetchPage is false), the
\* target page being navigationRoute.id or else the current route's id.
C3_SkipByTargetPageId ==
    [][MarkedEventStep =>
          LET targetPageId == Or(lastOp'.id, Get(state.route, "id"))
              shouldSkipFetch ==
                  \/ /\ ~AllowConditions(state.pages, targetPageId)
                     /\ targetPageId \in loadedPages
                  \/ lastOp'.fetchPageFalse
          IN  IF shouldSkipFetch THEN NoFetchStep ELSE OneFetchStep]_vars

\* C3, amended: a marked event starts a fetch iff not ((navigationRoute.id
\* is present, its page entry has no allowConditions and it is in
\* loadedPages) or fetchPage is false); an event without an id starts a
\* fetch unless fetchPage is false, also when the current page is loaded.
C3_SkipByNavigationRouteId ==
    [][MarkedEventStep =>
          LET shouldSkipFetch ==
                  \/ /\ lastOp'.id # Undefined
                     /\ ~AllowConditions(state.pages, lastOp'.id)
                     /\ lastOp'.id \in loadedPages
                  \/ lastOp'.fetchPageFalse
          IN  IF shouldSkipFetch THEN NoFetchStep ELSE OneFetchStep]_vars

\* an event without an id fetched although the current page was loaded
C3_Witness ==
    /\ lastOp.op = "onPageChanged"
    /\ lastOp.marked
    /\ lastOp.id = Undefined
    /\ lastOp.fetched
    /\ nextSeq = 1
    /\ settled = {}
    /\ state.page \in loadedPages

\* C4: setQuery starts no fetch, whatever the query argument, the flags and
\* the state; the navigation it performs carries fetchPage = false and the
\* listener takes the skip path, which sets the state's query from the new
\* search string and keeps the page.
C4_SetQueryNeverFetches ==
    [][lastOp'.op = "setQuery" =>
          /\ NoFetchStep
          /\ lastOp'.fetchPage = "false"
          /\ lastOp'.notified =>
                /\ state'.query = queryStringToMap(history'.search)
                /\ state'.page = state.page
                /\ state'.preview = state.preview]_vars

\* setQuery acted while the current page was not loaded
C4_Witness ==
    /\ lastOp.op = "setQuery"
    /\ lastOp.notified
    /\ state.page \notin loadedPages
    /\ state.query # EmptyMap

\* C5: loadedPages only grows, in every step of every interleaving.
C5_LoadedPagesOnlyGrows == [][loadedPages \subseteq loadedPages']_vars

\* a second page was loaded and later steps kept both
C5_Witness ==
    /\ Cardinality(loadedPages) = 2
    /\ BootPage \in loadedPages
    /\ lastOp.op \in {"updateRuntimeResolve", "fetchReject", "setQuery"}

\* the fetch whose completion the step applies
Settling == CHOOSE fetch \in inflight : fetch.seq = lastOp'.seq

NavigationSettles == lastOp'.op = "fetchResolve"

\* the event of a step that must fetch an unseen page
ToUnseenPage ==
    /\ MarkedEventStep
    /\ ~lastOp'.fetchPageFalse
    /\ Or(lastOp'.id, Get(state.route, "id")) \notin loadedPages

\* the one fetch started carries the event's path or the target route id
FetchesEventPage ==
    /\ OneFetchStep
    /\ \A fetch \in Started :
          /\ fetch.kind = "navigation"
          /\ IF renderNavigation
             THEN fetch.request.path = lastOp'.path
             ELSE fetch.request.routeId = Or(lastOp'.id, Get(state.route, "id"))

\* C9 as stated: a marked event with fetchPage not false to a page not in
\* loadedPages starts exactly one fetch with the event's path or route id,
\* and when that fetch resolves loadedPages contains the target page id,
\* preview is false and route is the matching page of the response, under
\* either fetch variant.
C9_TargetPageLoaded ==
    [][/\ ToUnseenPage => FetchesEventPage
       /\ (NavigationSettles /\ lastOp'.page \notin loadedPages) =>
             /\ lastOp'.page \in loadedPages'
             /\ state'.preview = FALSE
             /\ state'.route = lastOp'.response.matchingPage]_vars

\* C9, amended: such an event starts exactly one fetch with the event's
\* path (server variant) or the target route id (legacy variant); when the
\* fetch resolves preview is false and, under the server variant,
\* loadedPages contains matchingPage.routeId, which is also the state's
\* page, and route is the matching page, while under the legacy variant
\* loadedPages contains the target page id, which is the state's page, and
\* route is the route of the event overlaid with the matching page.
C9_SettledPageLoaded ==
    [][/\ ToUnseenPage => FetchesEventPage
       /\ (NavigationSettles /\ lastOp'.page \notin loadedPages) =>
             LET matchingPage == lastOp'.response.matchingPage
                 settledPage == IF renderNavigation THEN matchingPage.routeId
                                                    ELSE lastOp'.page
             IN  /\ loadedPages' = loadedPages \cup {settledPage}
                 /\ state'.page = settledPage
                 /\ state'.preview = FALSE
                 /\ state'.route =
                       IF renderNavigation THEN matchingPage
                       ELSE Spread(Settling.route, matchingPage)]_vars

\* the server resolved the path of an unseen page to another page
C9_Witness ==
    /\ lastOp.op = "fetchResolve"
    /\ renderNavigation
    /\ lastOp.response.matchingPage.routeId # lastOp.page
    /\ lastOp.page \notin loadedPages
    /\ ~state.preview

\* C10: a fetch in flight leaves only by its own completion or failure, and
\* a navigation fetch that resolves after a newer one has been applied is
\* applied all the same: page, route and query are then those of the older
\* navigation.
C10_StaleResultWins ==
    [][/\ \A fetch \in inflight \ inflight' :
             /\ lastOp'.op \in {"fetchResolve", "fetchReject",
                                "updateRuntimeResolve"}
             /\ inflight' = inflight \ {fetch}
       /\ (NavigationSettles /\ lastOp'.stale) =>
             LET matchingPage == lastOp'.response.matchingPage
             IN  /\ state'.page = IF renderNavigation THEN matchingPage.routeId
                                                      ELSE Settling.page
                 /\ state'.route =
                       IF renderNavigation THEN matchingPage
                       ELSE Spread(Settling.route, matchingPage)
                 /\ state'.query = Settling.query]_vars

\* both fetches settled, the older last, and it changed the page
C10_Witness ==
    /\ lastOp.op = "fetchResolve"
    /\ lastOp.stale
    /\ lastOp.seq = 1
    /\ settled = {1, 2}
    /\ inflight = {}
    /\ lastOp.previous # state.page

(***************************************************************************)
(* SpecMerge: the merges of fetched page data.  The history delivers a     *)
(* navigation to "store.product" and one without a page id; the server     *)
(* answers with either body for the page asked for; updateExtension sets   *)
(* the overlay and addMessages adds a message in between.                  *)
(***************************************************************************)
MergeLocations ==
    {l \in MarkedLocations :
        /\ l.search = <<>>
        /\ l.state.scrollOptions = "false"
        /\ l.state.fetchPage = Undefined
        /\ Get(l.state.navigationRoute, "id") # "store.home"}

NextMerge ==
    \/ componentDidMount
    \/ \E location \in MergeLocations : HistoryListener(location)
    \/ \E fetch \in inflight :
          \E response \in Responses(fetch, Bodies, {fetch.page}) :
            FetchResolve(fetch, response)
    \/ updateRuntime
    \/ \E fetch \in inflight :
          \E response \in Responses(fetch, Bodies, {fetch.page}) :
            UpdateRuntimeResolve(fetch, response)
    \/ updateExtension("store/__overlay", "x1")
    \/ addMessages([k \in {"m.c"} |-> "x1"])
    \/ sendInfoFromIframe

SpecMerge == InitHosted /\ [][NextMerge]_vars

MergedMaps == {"extensions", "components", "messages"}

\* every key of the map before is a key after, with the fetched value if
\* the response has the key and with its old value if not
Additive(before, fetched, after) ==
    /\ DOMAIN after = DOMAIN before \cup DOMAIN fetched
    /\ \A k \in DOMAIN after :
          after[k] = IF k \in DOMAIN fetched THEN fetched[k] ELSE before[k]

\* C6: when a navigation fetch resolves, under either variant, extensions,
\* components and messages are merged additively into the maps of the state
\* the completion is applied to: a key absent from the response keeps its
\* value, a key of the response takes the fetched value, whatever was
\* applied between the event and the completion.
C6_NavigationMergeAdditive ==
    [][NavigationSettles =>
          \A m \in MergedMaps :
             Additive(state[m], lastOp'.response[m], state'[m])]_vars

\* the second of two fetches resolved over the result of the first, the
\* overlay and an added message
C6_Witness ==
    /\ lastOp.op = "fetchResolve"
    /\ settled = {1, 2}
    /\ state.components = [k \in {"cA", "cB"} |->
                              IF k = "cA" THEN "v1" ELSE "v2"]
    /\ "store/__overlay" \in DOMAIN state.extensions
    /\ state.extensions["store/home"] = "v1"
    /\ "m.c" \in DOMAIN state.messages

\* C7: updateRuntime starts a fetch for the current page, loaded or not, and
\* when the fetch resolves no key of extensions, components or messages is
\* lost.
C7_RuntimeMergeAdditive ==
    [][/\ lastOp'.op = "updateRuntime" =>
             /\ OneFetchStep
             /\ \A fetch \in Started :
                   /\ fetch.kind = "runtime"
                   /\ fetch.page = state.page
       /\ lastOp'.op = "updateRuntimeResolve" =>
             \A m \in MergedMaps : DOMAIN state[m] \subseteq DOMAIN state'[m]]_vars

\* the state once the fetch of an updateRuntime has resolved
AfterRuntime(st, fetch, response) ==
    Spread(st, RuntimePatch(st, fetch, response))

RuntimeInFlight == {fetch \in inflight : fetch.kind = "runtime"}

\* C8: for two overlapping updateRuntime calls the state after both
\* completions does not depend on which fetch resolves first, and applying
\* the result of a fetch twice is applying it once.
C8_RuntimeCompletionsCommute ==
    /\ \A f1 \in RuntimeInFlight : \A f2 \in RuntimeInFlight \ {f1} :
          \A r1 \in Responses(f1, Bodies, {f1.page}),
             r2 \in Responses(f2, Bodies, {f2.page}) :
             AfterRuntime(AfterRuntime(state, f1, r1), f2, r2)
                = AfterRuntime(AfterRuntime(state, f2, r2), f1, r1)
    /\ \A f \in RuntimeInFlight :
          \A r \in Responses(f, Bodies, {f.page}) :
             AfterRuntime(AfterRuntime(state, f, r), f, r)
                = AfterRuntime(state, f, r)

(***************************************************************************)
(* Failure of a navigation fetch.                                          *)
(***************************************************************************)
NavigationFails == lastOp'.op = "fetchReject" /\ lastOp'.kind = "navigation"

\* C11: when the fetch of a navigation fails the rejection is not handled,
\* the state (page, route, query, extensions, components, messages and the
\* preview flag among its fields), loadedPages, the DOM and the publish
\* timer are what they were, and no fetch is started in its place.
C11_FailureLeavesState ==
    [][NavigationFails =>
          /\ ~lastOp'.handled
          /\ UNCHANGED <<state, loadedPages, settled, sendInfo, routeClass,
                         scrollTimer>>
          /\ nextSeq' = nextSeq
          /\ inflight' \subseteq inflight]_vars

\* the only navigation failed: the page is the previous one behind the preview
C11_Witness ==
    /\ lastOp.op = "fetchReject"
    /\ lastOp.kind = "navigation"
    /\ nextSeq = 1
    /\ inflight = {}
    /\ state.preview
    /\ state.page = BootPage
    /\ loadedPages = {BootPage}

(***************************************************************************)
(* The prefetch queue: prefetchDefaultPages(routeIds) before the mount,    *)
(* prefetchPages at the mount, execPrefetchPages 20 s later and the        *)
(* settling of its fetchDefaultPages.                                      *)
(***************************************************************************)
SEND_INFO_DEBOUNCE_MS == 100

PREFETCH_DELAY_MS == 20000

Elements(seq) == {seq[i] : i \in DOMAIN seq}

\* Set.add for each element of an array, the Set kept in insertion order
RECURSIVE AddAll(_, _)
AddAll(set, values) ==
    IF values = <<>> THEN set
    ELSE AddAll(IF Head(values) \in Elements(set)
                THEN set ELSE Append(set, Head(values)),
                Tail(values))

DisablePrefetchOnTrue ==
    /\ DISABLE_PREFETCH_PAGES \in DOMAIN runtimeQuery
    /\ runtimeQuery[DISABLE_PREFETCH_PAGES] = "true"

\* query && DISABLE_PREFETCH_PAGES in query && query[...] !== 'false'
disablePrefetch ==
    /\ DISABLE_PREFETCH_PAGES \in DOMAIN runtimeQuery
    /\ runtimeQuery[DISABLE_PREFETCH_PAGES] # "false"

PrefetchDefaultPagesAnytime(routeIds) ==
    /\ prefetchRoutes' =
          IF disablePrefetch THEN prefetchRoutes
                             ELSE AddAll(prefetchRoutes, routeIds)
    /\ lastOp' = [op |-> "prefetchDefaultPages",
                  routeIds |-> routeIds,
                  warned |-> FALSE]
    /\ UNCHANGED <<state, loadedPages, inflight, nextSeq, settled, sendInfo,
                   dom, history, lifecycle, config, prefetchTimer,
                   prefetchCalls>>

prefetchDefaultPages(routeIds) ==
    /\ prefetchRoutes' =
          IF ~disablePrefetch /\ ~rendered
          THEN AddAll(prefetchRoutes, routeIds)
          ELSE prefetchRoutes
    /\ lastOp' = [op |-> "prefetchDefaultPages",
                  routeIds |-> routeIds,
                  warned |-> ~disablePrefetch /\ rendered]
    /\ UNCHANGED <<state, loadedPages, inflight, nextSeq, settled, sendInfo,
                   dom, history, lifecycle, config, prefetchTimer,
                   prefetchCalls>>

\* the timer of prefetchPages fires: fetchDefaultPages is called with
\* Array.from(this.prefetchRoutes)
execPrefetchPages ==
    /\ prefetchTimer.armed
    /\ prefetchTimer.elapsed = PREFETCH_DELAY_MS
    /\ prefetchTimer' = Unscheduled
    /\ prefetchCalls' =
          [prefetchCalls EXCEPT
              !.fetches = Append(@, [routeIds |-> prefetchRoutes,
                                     pages |-> state.pages]),
              !.pending = TRUE]
    /\ lastOp' = [op |-> "execPrefetchPages"]
    /\ UNCHANGED <<state, loadedPages, inflight, nextSeq, settled, sendInfo,
                   dom, history, lifecycle, config, prefetchRoutes>>

\* fetchDefaultPages resolves: one prefetchAssets for each key of components
DefaultPagesResolve(defaultComponents) ==
    /\ prefetchCalls.pending
    /\ prefetchCalls' =
          [prefetchCalls EXCEPT
              !.pending = FALSE,
              !.assets = @ (+) SetToBag(DOMAIN defaultComponents)]
    /\ lastOp' = [op |-> "defaultPagesResolve",
                  components |-> DOMAIN defaultComponents]
    /\ UNCHANGED <<state, loadedPages, inflight, nextSeq, settled, sendInfo,
                   dom, history, lifecycle, config, prefetchRoutes,
                   prefetchTimer>>

\* fetchDefaultPages rejects: the await throws and execPrefetchPages ends
DefaultPagesReject ==
    /\ prefetchCalls.pending
    /\ prefetchCalls' = [prefetchCalls EXCEPT !.pending = FALSE]
    /\ lastOp' = [op |-> "defaultPagesReject"]
    /\ UNCHANGED <<state, loadedPages, inflight, nextSeq, settled, sendInfo,
                   dom, history, lifecycle, config, prefetchRoutes,
                   prefetchTimer>>

(***************************************************************************)
(* componentWillUnmount                                                    *)
(***************************************************************************)
componentWillUnmount ==
    /\ rendered
    /\ ~unmounted
    /\ listening' = FALSE
    /\ emitter' = {}
    /\ unmounted' = TRUE
    /\ lastOp' = [op |-> "componentWillUnmount"]
    /\ UNCHANGED <<state, loadedPages, inflight, nextSeq, settled, sendInfo,
                   dom, history, rendered, config, prefetch>>

(***************************************************************************)
(* Time.  A timer fires when its delay has elapsed, so time does not pass  *)
(* a deadline; any handler may still run at the deadline before the timer  *)
(* does.  Time is observed at half a debounce window while the debounce    *)
(* is pending, and at the next deadline.                                   *)
(***************************************************************************)
Deadlines ==
    (IF sendInfo.armed
     THEN {SEND_INFO_DEBOUNCE_MS - sendInfo.elapsed} ELSE {})
      \cup
    (IF prefetchTimer.armed
     THEN {PREFETCH_DELAY_MS - prefetchTimer.elapsed} ELSE {})

NextDeadline == CHOOSE d \in Deadlines : \A e \in Deadlines : d <= e

Delays ==
    {NextDeadline} \cup
    (IF sendInfo.armed THEN {SEND_INFO_DEBOUNCE_MS \div 2} ELSE {})

Advance ==
    /\ ~scrollTimer
    /\ Deadlines # {}
    /\ \E d \in Delays :
          /\ 0 < d
          /\ d <= NextDeadline
          /\ sendInfo' = IF sendInfo.armed
                         THEN [sendInfo EXCEPT !.elapsed = @ + d]
                         ELSE sendInfo
          /\ prefetchTimer' = IF prefetchTimer.armed
                              THEN [prefetchTimer EXCEPT !.elapsed = @ + d]
                              ELSE prefetchTimer
          /\ lastOp' = [op |-> "advance", d |-> d]
    /\ UNCHANGED <<state, loadedPages, inflight, nextSeq, settled, dom,
                   history, lifecycle, config, prefetchRoutes, prefetchCalls>>

\* the debounce timer fires once its window has elapsed
sendInfoTimeout ==
    /\ sendInfo.elapsed = SEND_INFO_DEBOUNCE_MS
    /\ sendInfoFromIframe

(***************************************************************************)
(* SpecPrefetch: the prefetch queue from the constructor on, any runtime   *)
(* query, with time.  A due timer runs and time passes.                    *)
(***************************************************************************)
RouteIdLists ==
    {<<>>, <<"store.product">>, <<"store.product", "store.product">>,
     <<"store.home", "store.product">>}

DefaultComponents ==
    {EmptyMap, [k \in {"cA"} |-> "v1"], [k \in {"cA", "cB"} |-> "v1"]}

InitPrefetch ==
    Init /\ renderNavigation /\ history.exists /\ domFailure = {}

NextPrefetch ==
    \/ \E routeIds \in RouteIdLists : prefetchDefaultPages(routeIds)
    \/ componentDidMount
    \/ componentWillUnmount
    \/ Advance
    \/ sendInfoTimeout
    \/ execPrefetchPages
    \/ \E defaultComponents \in DefaultComponents :
          DefaultPagesResolve(defaultComponents)
    \/ DefaultPagesReject

SpecPrefetch ==
    /\ InitPrefetch
    /\ [][NextPrefetch]_vars
    /\ WF_vars(Advance)
    /\ WF_vars(sendInfoTimeout)
    /\ WF_vars(execPrefetchPages)

PrefetchCall == lastOp'.op = "prefetchDefaultPages"

\* the runtime query holds the reserved key with a value other than "false"
PrefetchDisabled ==
    /\ DISABLE_PREFETCH_PAGES \in DOMAIN runtimeQuery
    /\ runtimeQuery[DISABLE_PREFETCH_PAGES] \in {"true", ""}

\* C12: prefetchDefaultPages called after the mount, prefetching not being
\* disabled, leaves the prefetch set as it was whatever the route ids, warns,
\* and schedules no timer and no fetch.
C12_LateRegistrationIgnored ==
    [][PrefetchCall /\ rendered /\ ~PrefetchDisabled =>
          /\ prefetchRoutes' = prefetchRoutes
          /\ lastOp'.warned
          /\ UNCHANGED <<prefetchTimer, prefetchCalls, inflight, nextSeq>>]_vars

\* ids given after the mount, with a queue registered before it
C12_Witness ==
    /\ lastOp.op = "prefetchDefaultPages"
    /\ lastOp.routeIds = <<"store.home", "store.product">>
    /\ lastOp.warned
    /\ rendered
    /\ prefetchRoutes = <<"store.product">>

\* C14: prefetchDefaultPages does nothing at all when the runtime query holds
\* __disablePrefetchPages with a value other than "false"; when the key is
\* absent or "false" and the provider is not mounted, every id given is in
\* the prefetch set afterwards, next to the ids already there.
C14_DisableFlag ==
    [][PrefetchCall =>
          /\ PrefetchDisabled =>
                /\ ~lastOp'.warned
                /\ UNCHANGED <<state, loadedPages, inflight, nextSeq, settled,
                               sendInfo, dom, history, lifecycle, config,
                               prefetch>>
          /\ ~PrefetchDisabled /\ ~rendered =>
                Elements(prefetchRoutes') =
                    Elements(prefetchRoutes) \cup Elements(lastOp'.routeIds)]_vars

\* the key is present with the empty string: ids given before the mount
\* are not registered
C14_Witness ==
    /\ lastOp.op = "prefetchDefaultPages"
    /\ lastOp.routeIds = <<"store.home", "store.product">>
    /\ Get(runtimeQuery, DISABLE_PREFETCH_PAGES) = ""
    /\ ~rendered
    /\ prefetchRoutes = <<>>

(***************************************************************************)
(* The execution of the prefetch.                                          *)
(***************************************************************************)
PrefetchSteps ==
    /\ lastOp'.op = "componentDidMount" =>
          prefetchTimer' = IF Len(prefetchRoutes) > 0
                           THEN [armed |-> TRUE, elapsed |-> 0]
                           ELSE [armed |-> FALSE, elapsed |-> 0]
    /\ ~prefetchTimer.armed /\ prefetchTimer'.armed =>
          lastOp'.op = "componentDidMount"
    /\ rendered => prefetchRoutes' = prefetchRoutes
    /\ lastOp'.op = "execPrefetchPages" =>
          /\ prefetchTimer.elapsed = PREFETCH_DELAY_MS
          /\ ~prefetchTimer'.armed
          /\ prefetchCalls.fetches = <<>>
          /\ Len(prefetchCalls'.fetches) = 1
          /\ prefetchCalls'.fetches[1].routeIds = prefetchRoutes
          /\ Cardinality(Elements(prefetchRoutes)) = Len(prefetchRoutes)
    /\ lastOp'.op = "defaultPagesResolve" =>
          prefetchCalls'.assets = SetToBag(lastOp'.components)

NothingToPrefetch ==
    rendered /\ prefetchRoutes = <<>> =>
        /\ ~prefetchTimer.armed
        /\ prefetchCalls.fetches = <<>>
        /\ ~prefetchCalls.pending
        /\ prefetchCalls.assets = EmptyBag

\* C13: with routes registered before the mount, the mount schedules one
\* execution of the prefetch, which runs once, 20 s later, and calls
\* fetchDefaultPages once with the registered ids, each once; its result is
\* followed by one prefetchAssets per component.  With no route registered
\* at the mount nothing is ever scheduled or fetched.
C13_PrefetchRunsOnce ==
    /\ [][PrefetchSteps]_vars
    /\ []NothingToPrefetch
    /\ (rendered /\ Len(prefetchRoutes) > 0) ~>
           (Len(prefetchCalls.fetches) = 1)

\* "store.product" registered twice, then "store.home": one fetch of the two
\* ids, then the assets of the two components of its result
C13_Witness ==
    /\ lastOp.op = "defaultPagesResolve"
    /\ lastOp.components = {"cA", "cB"}
    /\ Len(prefetchCalls.fetches) = 1
    /\ prefetchCalls.fetches[1].routeIds = <<"store.product", "store.home">>
    /\ prefetchCalls.assets = SetToBag({"cA", "cB"})
    /\ ~prefetchTimer.armed

(***************************************************************************)
(* updateMessages, updateComponentAssets and fetchComponent                *)
(***************************************************************************)
\* updateMessages(newMessages), the callback handed to the hosting frame
updateMessages(newMessages) ==
    /\ Commit(<<MessagesUpdate(newMessages)>>)
    /\ lastOp' = [op |-> "updateMessages", pending |-> sendInfo]
    /\ UNCHANGED <<loadedPages, inflight, nextSeq, settled, history,
                   lifecycle, config, prefetch>>

\* updateComponentAssets(availableComponents): a setState without callback
updateComponentAssets(availableComponents) ==
    /\ Commit(<<Update([components |->
                           Spread(state.components, availableComponents)],
                       [fn |-> "none"])>>)
    /\ lastOp' = [op |-> "updateComponentAssets"]
    /\ UNCHANGED <<loadedPages, inflight, nextSeq, settled, history,
                   lifecycle, config, prefetch>>

\* fetchAssets of a component, some of its apps not fetched yet
AssetsFetch(component) ==
    [seq |-> 0, kind |-> "assets", component |-> component]

\* fetchComponent(component): with every app fetched already the promise of
\* fetchAssets is returned as it is; otherwise a .then is attached to it
fetchComponent(component, unfetched) ==
    /\ inflight' = IF unfetched THEN inflight \cup {AssetsFetch(component)}
                                ELSE inflight
    /\ lastOp' = [op |-> "fetchComponent", unfetched |-> unfetched]
    /\ UNCHANGED <<state, loadedPages, nextSeq, settled, sendInfo, dom,
                   history, lifecycle, config, prefetch>>

\* assetsPromise resolves: this.sendInfoFromIframe({shouldUpdateRuntime: true})
AssetsResolve(fetch) ==
    /\ fetch \in inflight
    /\ fetch.kind = "assets"
    /\ inflight' = inflight \ {fetch}
    /\ sendInfo' = Armed(TRUE)
    /\ lastOp' = [op |-> "assetsResolve", pending |-> sendInfo]
    /\ UNCHANGED <<state, loadedPages, nextSeq, settled, dom, history,
                   lifecycle, config, prefetch>>

(***************************************************************************)
(* SpecDebounce: the operations that request a publish, and those that do  *)
(* not, with time, inside and outside the hosting frame.                   *)
(***************************************************************************)
InitDebounce ==
    /\ Init
    /\ renderNavigation
    /\ history.exists
    /\ ~production
    /\ runtimeQuery = EmptyMap
    /\ domFailure = {}

NextDebounce ==
    \/ componentDidMount
    \/ componentWillUnmount
    \/ \E name \in {"store/home", "store/__overlay"} :
          updateExtension(name, "x1")
    \/ addMessages([k \in {"m.c"} |-> "x1"])
    \/ updateMessages([k \in {"m.d"} |-> "x2"])
    \/ updateComponentAssets([k \in {"cB"} |-> "x1"])
    \/ \E unfetched \in BOOLEAN : fetchComponent("cA", unfetched)
    \/ \E fetch \in inflight : AssetsResolve(fetch)
    \/ \E fetch \in inflight : FetchReject(fetch)
    \/ Advance
    \/ sendInfoTimeout

SpecDebounce ==
    /\ InitDebounce
    /\ [][NextDebounce]_vars
    /\ WF_vars(Advance)
    /\ WF_vars(sendInfoTimeout)

\* a call of the debounced sendInfoFromIframe
PublishRequest == sendInfo'.armed /\ sendInfo'.elapsed = 0 /\ lastOp'.op # "advance"

DebounceSteps ==
    /\ lastOp'.op \in {"componentDidMount", "addMessages", "updateMessages"}
       /\ ~unmounted =>
          sendInfo' = [armed |-> TRUE, shouldUpdateRuntime |-> FALSE,
                       elapsed |-> 0]
    /\ lastOp'.op = "assetsResolve" =>
          sendInfo' = [armed |-> TRUE, shouldUpdateRuntime |-> TRUE,
                       elapsed |-> 0]
    /\ lastOp'.op = "sendInfoFromIframe" =>
          /\ sendInfo.armed
          /\ sendInfo.elapsed = SEND_INFO_DEBOUNCE_MS
          /\ ~sendInfo'.armed
          /\ lastOp'.provideRuntime = isSiteEditorIframe
          /\ lastOp'.shouldUpdateRuntime = sendInfo.shouldUpdateRuntime
          /\ lastOp'.published = state
    /\ lastOp'.op \in {"advance", "updateComponentAssets", "fetchComponent",
                       "componentWillUnmount", "fetchReject"} =>
          /\ sendInfo'.armed = sendInfo.armed
          /\ sendInfo'.shouldUpdateRuntime = sendInfo.shouldUpdateRuntime
          /\ sendInfo'.elapsed >= sendInfo.elapsed

\* C15: every call of sendInfoFromIframe restarts the window of 100 ms with
\* its own arguments; the hosting frame is called only when a window has
\* elapsed without a call, once, with the arguments of the last call and
\* the state of that moment; and once the calls stop the pending publish is
\* made.
C15_TrailingDebounce ==
    /\ [][DebounceSteps]_vars
    /\ (<>[][~PublishRequest]_vars) => <>[](~sendInfo.armed)

\* a plain call 50 ms after a call with shouldUpdateRuntime: true
C15_Witness ==
    /\ lastOp.op = "updateMessages"
    /\ lastOp.pending = [armed |-> TRUE, shouldUpdateRuntime |-> TRUE,
                         elapsed |-> SEND_INFO_DEBOUNCE_MS \div 2]
    /\ sendInfo = [armed |-> TRUE, shouldUpdateRuntime |-> FALSE,
                   elapsed |-> 0]
    /\ isSiteEditorIframe

\* C17: updateExtension(name, extension) sets extensions[name] to extension
\* and keeps every other key of the map and every other field of the state;
\* it requests a publish iff name is not "store/__overlay".
C17_OneExtensionReplaced ==
    [][lastOp'.op = "updateExtension" /\ ~unmounted =>
          /\ DOMAIN state'.extensions =
                DOMAIN state.extensions \cup {lastOp'.name}
          /\ \A k \in DOMAIN state'.extensions :
                state'.extensions[k] =
                    IF k = lastOp'.name THEN lastOp'.extension
                                        ELSE state.extensions[k]
          /\ \A f \in DOMAIN state \ {"extensions"} : state'[f] = state[f]
          /\ IF lastOp'.name # "store/__overlay"
             THEN sendInfo' = [armed |-> TRUE, shouldUpdateRuntime |-> FALSE,
                               elapsed |-> 0]
             ELSE sendInfo' = sendInfo]_vars

\* the overlay entry is set next to the entries of the boot runtime while a
\* publish with shouldUpdateRuntime is pending, which stays as it was
C17_Witness ==
    /\ lastOp.op = "updateExtension"
    /\ lastOp.name = "store/__overlay"
    /\ Get(state.extensions, "store/__overlay") = "x1"
    /\ Cardinality(DOMAIN state.extensions) > 1
    /\ sendInfo = [armed |-> TRUE, shouldUpdateRuntime |-> TRUE,
                   elapsed |-> SEND_INFO_DEBOUNCE_MS \div 2]

(***************************************************************************)
(* SpecPublish: every operation that changes the state, inside the hosting *)
(* frame; the history delivers navigations to "store.product" with         *)
(* fetchPage unset or false and the server answers with FreshBody.         *)
(***************************************************************************)
NextPublish ==
    \/ componentDidMount
    \/ \E location \in SessionLocations : HistoryListener(location)
    \/ \E fetch \in inflight :
          \E response \in Responses(fetch, {FreshBody}, NavigationPageIds) :
            FetchResolve(fetch, response)
    \/ \E fetch \in inflight : FetchReject(fetch)
    \/ updateRuntime
    \/ \E fetch \in inflight :
          \E response \in Responses(fetch, {FreshBody}, {fetch.page}) :
            UpdateRuntimeResolve(fetch, response)
    \/ \E name \in {"store/home", "store/__overlay"} :
          updateExtension(name, "x1")
    \/ addMessages([k \in {"m.c"} |-> "x1"])
    \/ updateMessages([k \in {"m.d"} |-> "x2"])
    \/ updateComponentAssets([k \in {"cB"} |-> "x1"])
    \/ sendInfoFromIframe

SpecPublish == InitHosted /\ [][NextPublish]_vars

PlainRequest == [armed |-> TRUE, shouldUpdateRuntime |-> FALSE, elapsed |-> 0]

\* the operation of the step has applied its mutation of the state
MutationApplied ==
    \/ MarkedEventStep /\ ~lastOp'.fetched
    \/ lastOp'.op \in {"fetchResolve", "updateRuntimeResolve", "addMessages",
                       "updateMessages"}
    \/ lastOp'.op = "updateExtension" /\ lastOp'.name # "store/__overlay"

\* the operation of the step has started the fetch its mutation waits for
MutationPending ==
    \/ MarkedEventStep /\ lastOp'.fetched
    \/ lastOp'.op = "updateRuntime"

QueryMaps ==
    {EmptyMap,
     [k \in {"q"} |-> "red"],
     [k \in {"q"} |-> "green"],
     [k \in {"color"} |-> "blue"],
     [k \in {"color", "q"} |-> IF k = "q" THEN "red" ELSE "green"]}

NextQuery ==
    \/ componentDidMount
    \/ \E query \in QueryMaps, mergeFlag \in BOOLEAN :
          setQuery(query, mergeFlag, FALSE, "false")
    \/ sendInfoFromIframe

SpecQuery == InitHosted /\ [][NextQuery]_vars

\* the keys of the second map over those of the first
Overlaid(current, query) ==
    [k \in DOMAIN current \cup DOMAIN query |->
        IF k \in DOMAIN query THEN query[k] ELSE current[k]]

\* C18: with a history, setQuery navigates to the query string that decodes
\* to the current query overlaid with the argument when merge is true and to
\* the argument when merge is false; without a history it returns false,
\* navigates nowhere and changes nothing.
C18_SetQueryMerges ==
    [][lastOp'.op = "setQuery" =>
          IF history.exists
          THEN /\ lastOp'.returned
               /\ queryStringToMap(history'.search) =
                     IF lastOp'.merge
                     THEN Overlaid(queryStringToMap(history.search),
                                   lastOp'.query)
                     ELSE lastOp'.query
          ELSE /\ ~lastOp'.returned
               /\ UNCHANGED <<state, loadedPages, inflight, nextSeq, settled,
                              sendInfo, dom, history, lifecycle, config,
                              prefetch>>]_vars

\* {q: "red"} merged into the current {color: "blue"}
C18_Witness ==
    /\ lastOp.op = "setQuery"
    /\ lastOp.query = [k \in {"q"} |-> "red"]
    /\ lastOp.merge
    /\ queryStringToMap(history.search) =
          [k \in {"color", "q"} |-> IF k = "q" THEN "red" ELSE "blue"]
    /\ state.query = queryStringToMap(history.search)
    /\ nextSeq = 0

(***************************************************************************)
(* SpecLifecycle: a provider that is mounted and unmounted, inside the     *)
(* hosting frame, with time.  Routes are registered for the prefetch       *)
(* before the mount; the history delivers navigations to "store.product",  *)
(* the emitter delivers extensionsUpdated and blocksUpdated, and a fetch   *)
(* in flight may resolve after the unmount.                                *)
(***************************************************************************)
\* the emitter calls the listeners registered for the event
emit(name) ==
    /\ name \in emitter
    /\ updateRuntime

InFlight(kind) == {fetch \in inflight : fetch.kind = kind}

LifecycleLocations ==
    {l \in SessionLocations : l.state.fetchPage = Undefined}

InitLifecycle ==
    /\ Init
    /\ isSiteEditorIframe
    /\ ~production
    /\ ~renderNavigation
    /\ history.exists
    /\ runtimeQuery = EmptyMap
    /\ domFailure = {}

NextLifecycle ==
    \/ prefetchDefaultPages(<<"store.product">>)
    \/ componentDidMount
    \/ componentWillUnmount
    \/ \E location \in LifecycleLocations : HistoryListener(location)
    \/ \E name \in {"extensionsUpdated", "blocksUpdated"} : emit(name)
    \/ \E fetch \in InFlight("navigation") :
          \E response \in Responses(fetch, {FreshBody}, NavigationPageIds) :
            FetchResolve(fetch, response)
    \/ \E fetch \in InFlight("runtime") :
          \E response \in Responses(fetch, {FreshBody}, {fetch.page}) :
            UpdateRuntimeResolve(fetch, response)
    \/ Advance
    \/ sendInfoTimeout
    \/ execPrefetchPages
    \/ DefaultPagesResolve([k \in {"cA"} |-> "v1"])

SpecLifecycle == InitLifecycle /\ [][NextLifecycle]_vars

\* C19: the unmount clears the pending timers, and on an unmounted provider
\* no navigation is handled, no updateRuntime is started, the prefetch is
\* not executed and no publish is requested or made.
C19_UnmountStopsOperations ==
    [][/\ lastOp'.op = "componentWillUnmount" =>
             ~sendInfo'.armed /\ ~prefetchTimer'.armed
       /\ unmounted =>
             /\ lastOp'.op \notin {"onPageChanged", "updateRuntime",
                                   "execPrefetchPages", "sendInfoFromIframe"}
             /\ ~PublishRequest]_vars

\* on an unmounted provider no listener runs
C19_ListenersRemoved ==
    [][unmounted => lastOp'.op \notin {"onPageChanged", "updateRuntime"}]_vars

\* C20: on an unmounted provider the completion of a navigation fetch or of
\* the fetch of updateRuntime issues no setState, leaves the state and
\* loadedPages as they were and requests no publish.
C20_CompletionAfterUnmountIsNoOp ==
    [][unmounted /\ lastOp'.op \in {"fetchResolve", "updateRuntimeResolve"} =>
          /\ lastOp'.setStates = 0
          /\ UNCHANGED <<state, loadedPages, sendInfo, dom>>]_vars

\* what does hold of those completions: React drops the setState
C20_CompletionAfterUnmountDropped ==
    [][unmounted /\ lastOp'.op \in {"fetchResolve", "updateRuntimeResolve"} =>
          UNCHANGED <<state, sendInfo, dom>>]_vars

\* a page enters loadedPages after the unmount
C20_LoadedAfterUnmount ==
    /\ unmounted
    /\ lastOp.op = "fetchResolve"
    /\ "store.product" \in loadedPages
    /\ state.page = BootPage

(***************************************************************************)
(* The publish outside the hosting frame.                                  *)
(***************************************************************************)
\* C21: outside the hosting frame no step calls window.top.__provideRuntime;
\* the debounced function returns before the call each time it runs.
C21_NoPublishOutsideFrame ==
    [][~isSiteEditorIframe /\ "provideRuntime" \in DOMAIN lastOp' =>
          ~lastOp'.provideRuntime]_vars

\* outside the frame the debounced function has run after a request with
\* shouldUpdateRuntime and a change of the messages
C21_Witness ==
    /\ ~isSiteEditorIframe
    /\ lastOp.op = "sendInfoFromIframe"
    /\ ~lastOp.provideRuntime
    /\ lastOp.shouldUpdateRuntime
    /\ "m.c" \in DOMAIN state.messages

(***************************************************************************)
(* SpecEvents: the history delivers navigations with fetchPage unset or    *)
(* false, with and without a query string, that scroll to the top or keep  *)
(* the scroll position; the server answers with FreshBody.                 *)
(***************************************************************************)
EventLocations ==
    {l \in MarkedLocations : l.state.fetchPage \in {Undefined, "false"}}

NextEvents ==
    \/ componentDidMount
    \/ \E location \in EventLocations : HistoryListener(location)
    \/ \E fetch \in inflight :
          \E response \in Responses(fetch, {FreshBody}, NavigationPageIds) :
            FetchResolve(fetch, response)
    \/ \E fetch \in inflight : FetchReject(fetch)
    \/ sendInfoFromIframe
    \/ pageScrollTo

SpecEvents == InitHosted /\ [][NextEvents]_vars

SkipStep == MarkedEventStep /\ ~lastOp'.fetched

\* C22: on the skip path the page becomes the target page, the query the
\* decoded search of the location and the route the current route overlaid
\* with the navigation route; every other field of the state and
\* loadedPages stay; the route class, the scroll and the publish request
\* follow in the callback of that setState, and no fetch is started.
C22_SkipPathFields ==
    [][SkipStep =>
          /\ state'.page = IF lastOp'.id # Undefined THEN lastOp'.id
                           ELSE Get(state.route, "id")
          /\ state'.query = queryStringToMap(history'.search)
          /\ state'.route = Overlaid(state.route, lastOp'.navigationRoute)
          /\ \A f \in DOMAIN state \ {"page", "query", "route"} :
                state'[f] = state[f]
          /\ DOMAIN state' = DOMAIN state
          /\ loadedPages' = loadedPages
          /\ routeClass' = state'.page
          /\ scrollTimer' = (scrollTimer \/ lastOp'.scrollOptions # "false")
          /\ sendInfo' = PlainRequest
          /\ inflight' = inflight
          /\ nextSeq' = nextSeq]_vars

\* a navigation with fetchPage false to a page that is not loaded, with a
\* query string, while the fetch of another navigation is in flight: the
\* preview stays on
C22_Witness ==
    /\ lastOp.op = "onPageChanged"
    /\ lastOp.marked
    /\ lastOp.fetchPageFalse
    /\ lastOp.id = "store.product"
    /\ state.page = "store.product"
    /\ state.query = [k \in {"q"} |-> "red"]
    /\ "store.product" \notin loadedPages
    /\ state.preview
    /\ inflight # {}
    /\ scrollTimer

(***************************************************************************)
(* SpecPreview: navigations that fetch, the server resolving a path to any *)
(* page, "admin.app" among them, whose route has the domain "admin".       *)
(***************************************************************************)
PreviewLocations ==
    {l \in MarkedLocations :
        l.search = <<>> /\ l.state.fetchPage \in {Undefined, "true"}}

NextPreview ==
    \/ componentDidMount
    \/ \E location \in PreviewLocations : HistoryListener(location)
    \/ \E fetch \in inflight :
          \E response \in Responses(fetch, {FreshBody}, PageIds) :
            FetchResolve(fetch, response)
    \/ \E fetch \in inflight : FetchReject(fetch)
    \/ sendInfoFromIframe
    \/ pageScrollTo

SpecPreview == InitHosted /\ [][NextPreview]_vars

FetchStep == MarkedEventStep /\ lastOp'.fetched

\* C23: the step that starts the fetch of a navigation sets preview to
\* (domain of the current route # "admin") and nothing else in the state,
\* schedules the scroll unless scrollOptions is false, and touches neither
\* the route class nor the publish timer; the failure of the fetch leaves
\* page, route and query as well.
C23_PreviewBeforeFetch ==
    [][/\ FetchStep =>
             /\ state'.preview = (Get(state.route, "domain") # "admin")
             /\ \A f \in DOMAIN state \ {"preview"} : state'[f] = state[f]
             /\ DOMAIN state' = DOMAIN state
             /\ scrollTimer' = (scrollTimer \/ lastOp'.scrollOptions # "false")
             /\ UNCHANGED <<routeClass, sendInfo, loadedPages>>
       /\ NavigationFails =>
             /\ state'.page = state.page
             /\ state'.route = state.route
             /\ state'.query = state.query]_vars

\* a navigation from the page of the domain "admin": no preview, the scroll
\* scheduled, the page still "admin.app"
C23_Witness ==
    /\ lastOp.op = "onPageChanged"
    /\ lastOp.marked
    /\ lastOp.fetched
    /\ lastOp.id = "store.product"
    /\ state.page = "admin.app"
    /\ Get(state.route, "domain") = "admin"
    /\ ~state.preview
    /\ scrollTimer
    /\ Cardinality(inflight) = 1

(***************************************************************************)
(* SpecDom: navigations in a document in which the update of the route     *)
(* class, the scheduling of the scroll, both or none throw.                *)
(***************************************************************************)
InitDom ==
    /\ Init
    /\ isSiteEditorIframe
    /\ ~production
    /\ history.exists
    /\ runtimeQuery = EmptyMap

DomLocations == {l \in EventLocations : l.search = <<>>}

NextDom ==
    \/ componentDidMount
    \/ \E location \in DomLocations : HistoryListener(location)
    \/ \E fetch \in inflight :
          \E response \in Responses(fetch, {FreshBody}, NavigationPageIds) :
            FetchResolve(fetch, response)
    \/ \E fetch \in inflight : FetchReject(fetch)
    \/ sendInfoFromIframe
    \/ pageScrollTo

SpecDom == InitDom /\ [][NextDom]_vars

\* C24: a navigation that completes (skip path or success of the fetch) in a
\* document whose DOM operations throw still has its result in the state
\* and still requests the publish; the route class stays when its update
\* throws and no scroll is scheduled when the scheduling throws.
C24_DomFailureCaught ==
    [][/\ SkipStep =>
             /\ state'.page = IF lastOp'.id # Undefined THEN lastOp'.id
                              ELSE Get(state.route, "id")
             /\ state'.route = Overlaid(state.route, lastOp'.navigationRoute)
             /\ sendInfo' = PlainRequest
       /\ NavigationSettles =>
             /\ ~state'.preview
             /\ state'.settings = lastOp'.response.settings
             /\ \A k \in DOMAIN lastOp'.response.messages :
                   Get(state'.messages, k) = lastOp'.response.messages[k]
             /\ sendInfo' = PlainRequest
       /\ (SkipStep \/ NavigationSettles) =>
             /\ "replaceRouteClass" \in domFailure => routeClass' = routeClass
             /\ "scrollTo" \in domFailure => scrollTimer' = scrollTimer]_vars

\* both operations throw: the page fetched is in the state and the publish
\* is requested, the route class is still that of the boot page
C24_Witness ==
    /\ domFailure = {"replaceRouteClass", "scrollTo"}
    /\ lastOp.op = "fetchResolve"
    /\ state.page = "store.product"
    /\ "m.b" \in DOMAIN state.messages
    /\ routeClass = BootPage
    /\ ~scrollTimer
    /\ sendInfo = PlainRequest

(***************************************************************************)
(* start of src/react/index.tsx: the extension points rendered for the     *)
(* page of the runtime.  A name is the sequence of its characters, "s" and *)
(* "sf" being two names that share leading characters and "s/p" a          *)
(* descendant of "s".                                                      *)
(***************************************************************************)
ExtensionNames ==
    {<<"s">>, <<"s", "/", "p">>, <<"s", "f">>, <<"s", "f", "/", "x">>,
     <<"a">>}

RootNames == {<<"s">>, <<"s", "f">>}

\* the maps of global.__RUNTIME__.extensions: every name is absent, present
\* with a component or present without one
ExtensionMaps ==
    UNION {[names -> {[component |-> "c"], [component |-> ""]}] :
              names \in SUBSET ExtensionNames}

\* String.prototype.startsWith
startsWith(name, prefix) ==
    /\ Len(prefix) <= Len(name)
    /\ SubSeq(name, 1, Len(prefix)) = prefix

hasComponent(extensions, name) == extensions[name].component # ""

isRoot(name, names) ==
    ~\E parent \in names : name # parent /\ startsWith(name, parent)

getRenderableExtensionPointNames(rootName, extensions) ==
    LET childExtensionPoints ==
            {value \in DOMAIN extensions : startsWith(value, rootName)}
        withComponentNames ==
            {name \in childExtensionPoints : hasComponent(extensions, name)}
    IN  {name \in withComponentNames : isRoot(name, withComponentNames)}

\* start(): render(e, runtime) for each renderable extension point
start ==
    /\ lastOp.op = "runtime"
    /\ lastOp' = [op |-> "start",
                  page |-> lastOp.page,
                  extensions |-> lastOp.extensions,
                  rendered |-> getRenderableExtensionPointNames(
                                   lastOp.page, lastOp.extensions)]
    /\ UNCHANGED <<state, loadedPages, inflight, nextSeq, settled, sendInfo,
                   dom, history, lifecycle, config, prefetch>>

\* global.__RUNTIME__ is set and no provider is rendered yet
InitStart ==
    /\ state = Spread(Runtime(BootPage), [preview |-> FALSE])
    /\ loadedPages = {BootPage}
    /\ routeClass = BootPage
    /\ inflight = {}
    /\ nextSeq = 0
    /\ settled = {}
    /\ sendInfo = Idle
    /\ scrollTimer = FALSE
    /\ history = [exists |-> FALSE, search |-> <<>>]
    /\ rendered = FALSE
    /\ listening = FALSE
    /\ emitter = {}
    /\ unmounted = FALSE
    /\ renderNavigation = FALSE
    /\ isSiteEditorIframe = FALSE
    /\ production = TRUE
    /\ runtimeQuery = EmptyMap
    /\ prefetchRoutes = <<>>
    /\ prefetchTimer = Unscheduled
    /\ prefetchCalls = NoCalls
    /\ domFailure = {}
    /\ \E page \in RootNames, extensions \in ExtensionMaps :
          lastOp = [op |-> "runtime", page |-> page,
                    extensions |-> extensions]

SpecStart == InitStart /\ [][start]_vars

\* parent is an ancestor of name in the hierarchy of the names
Ancestor(parent, name) == startsWith(name, parent \o <<"/">>)

\* C25: start renders the names that begin with the page name, have a
\* component and have no ancestor in the hierarchy of the names, among the
\* names under the page, that has a component; a name that only shares
\* leading characters with another one is rendered.
C25_RootExtensionPoints ==
    lastOp.op = "start" =>
        lastOp.rendered =
            {name \in DOMAIN lastOp.extensions :
                /\ startsWith(name, lastOp.page)
                /\ lastOp.extensions[name].component # ""
                /\ ~\E parent \in DOMAIN lastOp.extensions :
                      /\ startsWith(parent, lastOp.page)
                      /\ lastOp.extensions[parent].component # ""
                      /\ Ancestor(parent, name)}

\* what start renders: the roots of the order "is a leading substring of"
C25_RootsByLeadingCharacters ==
    lastOp.op = "start" =>
        /\ \A name \in lastOp.rendered :
              /\ startsWith(name, lastOp.page)
              /\ lastOp.extensions[name].component # ""
        /\ <<"s">> \in lastOp.rendered => <<"s", "f">> \notin lastOp.rendered

\* "s" and "sf" have components and "s" is the page: "sf" is not rendered
C25_SiblingNotRendered ==
    /\ lastOp.op = "start"
    /\ lastOp.page = <<"s">>
    /\ DOMAIN lastOp.extensions = {<<"s">>, <<"s", "f">>}
    /\ \A name \in DOMAIN lastOp.extensions :
          lastOp.extensions[name].component = "c"
    /\ lastOp.rendered = {<<"s">>}

(***************************************************************************)
(* updateRuntime and a navigation that completes while it waits.           *)
(***************************************************************************)
\* C26: the merge of updateRuntime leaves the page and the route of the
\* state as they are when it is applied, so that a navigation completed
\* since the call is not undone.
C26_UpdateRuntimeKeepsPage ==
    [][lastOp'.op = "updateRuntimeResolve" /\ ~unmounted =>
          /\ state'.page = state.page
          /\ state'.route = state.route]_vars

\* the merge of an updateRuntime called on the boot page has been applied
\* after a navigation to "store.product" was completed: the page is the
\* boot page again
C26_PageReverted ==
    /\ lastOp.op = "updateRuntimeResolve"
    /\ lastOp.seq = 1
    /\ 2 \in settled
    /\ state.page = BootPage
    /\ "store.product" \in loadedPages
    /\ history.search = <<>>

(***************************************************************************)
(* SpecBatch: an event handler of a component calls updateExtension or     *)
(* addMessages twice; React applies the setState calls of a handler        *)
(* together, once the handler has returned.                                *)
(***************************************************************************)
BatchNames == {"store/home", "store/shelf", "store/__overlay"}

BatchMessages == {[k \in {key} |-> "x1"] : key \in {"m.a", "m.c", "m.d"}}

\* two calls of updateExtension in one handler: each reads this.state
updateExtensionTwice(first, second) ==
    /\ Commit(<<ExtensionUpdate(first.name, first.extension),
                ExtensionUpdate(second.name, second.extension)>>)
    /\ lastOp' = [op |-> "updateExtensionTwice",
                  first |-> first, second |-> second]
    /\ UNCHANGED <<loadedPages, inflight, nextSeq, settled, history,
                   lifecycle, config, prefetch>>

\* two calls of addMessages in one handler: each reads this.state
addMessagesTwice(first, second) ==
    /\ Commit(<<MessagesUpdate(first), MessagesUpdate(second)>>)
    /\ lastOp' = [op |-> "addMessagesTwice",
                  first |-> first, second |-> second]
    /\ UNCHANGED <<loadedPages, inflight, nextSeq, settled, history,
                   lifecycle, config, prefetch>>

ExtensionCalls ==
    {[name |-> name, extension |-> extension] :
        name \in BatchNames, extension \in {"x1", "x2"}}

NextBatch ==
    \/ componentDidMount
    \/ \E call \in ExtensionCalls : updateExtension(call.name, call.extension)
    \/ \E newMessages \in BatchMessages : addMessages(newMessages)
    \/ \E first \in ExtensionCalls, second \in ExtensionCalls :
          updateExtensionTwice(first, second)
    \/ \E first \in BatchMessages, second \in BatchMessages :
          addMessagesTwice(first, second)
    \/ sendInfoFromIframe

SpecBatch == InitHosted /\ [][NextBatch]_vars

\* C27: two updateExtension calls for different names, or two addMessages
\* calls with different keys, issued before either mutation is applied,
\* leave both new entries in the map.
C27_NoLostUpdate ==
    [][/\ lastOp'.op = "updateExtensionTwice"
          /\ lastOp'.first.name # lastOp'.second.name =>
             /\ Get(state'.extensions, lastOp'.first.name) =
                   lastOp'.first.extension
             /\ Get(state'.extensions, lastOp'.second.name) =
                   lastOp'.second.extension
       /\ lastOp'.op = "addMessagesTwice"
          /\ DOMAIN lastOp'.first # DOMAIN lastOp'.second =>
             \A newMessages \in {lastOp'.first, lastOp'.second} :
                \A k \in DOMAIN newMessages :
                   Get(state'.messages, k) = newMessages[k]]_vars

\* what does hold: the entry of the second call is in the map
C27_SecondUpdateKept ==
    [][/\ lastOp'.op = "updateExtensionTwice" =>
             Get(state'.extensions, lastOp'.second.name) =
                 lastOp'.second.extension
       /\ lastOp'.op = "addMessagesTwice" =>
             \A k \in DOMAIN lastOp'.second :
                Get(state'.messages, k) = lastOp'.second[k]]_vars

\* the entry of the first of two calls is not in the map
C27_FirstUpdateLost ==
    /\ lastOp.op = "updateExtensionTwice"
    /\ lastOp.first.name = "store/shelf"
    /\ lastOp.second.name = "store/home"
    /\ "store/shelf" \notin DOMAIN state.extensions
    /\ state.extensions["store/home"] = lastOp.second.extension

(***************************************************************************)
(* The preview and the navigation fetches in flight.                       *)
(***************************************************************************)
NavigationInFlight == InFlight("navigation")

\* C28: the preview is on while a navigation fetch started from a route
\* whose domain is not "admin" is in flight, and off when no navigation
\* fetch is in flight and none has failed.
C28_PreviewTracksFetches ==
    /\ (\E fetch \in NavigationInFlight :
           Get(fetch.route, "domain") # "admin") => state.preview
    /\ inflight = {} /\ Cardinality(settled) = nextSeq => ~state.preview

\* what does hold: with every fetch resolved the preview is off
C28_PreviewOffWhenAllResolved ==
    inflight = {} /\ Cardinality(settled) = nextSeq => ~state.preview

\* two fetches started from the boot page, the first one resolved: the
\* preview is off while the second is in flight
C28_PreviewOffWhilePending ==
    /\ lastOp.op = "fetchResolve"
    /\ nextSeq = 2
    /\ Cardinality(settled) = 1
    /\ Cardinality(inflight) = 1
    /\ \A fetch \in inflight : Get(fetch.route, "domain") = "store"
    /\ ~state.preview

====
